---------------------------- MODULE Spec2Model ----------------------------
(***************************************************************************)
(* A model of twistedcaldav.scheduling.caldav.ScheduleViaCalDAV: the       *)
(* delivery of a scheduling message to a list of local recipients          *)
(* (generateSchedulingResponses and the two per-recipient paths) and the   *)
(* address classifier matchCalendarUserAddress.                            *)
(*                                                                         *)
(* The delivery is an inlineCallbacks coroutine.  pc names the collaborator *)
(* call the coroutine executes next; idx is the position (1-based) of the  *)
(* recipient the for loop is at.  Every collaborator's outcome is drawn    *)
(* with \E when the call is made.                                          *)
(***************************************************************************)
EXTENDS Naturals, Sequences, FiniteSets

VARIABLES
    organizer,      \* class of scheduler.organizer
    freebusy,       \* self.freebusy
    recipients,     \* self.recipients: sequence of [cuaddr, autoSchedule]
    responses,      \* self.responses: the entries added so far, in order
    autoresponses,  \* the local list autoresponses
    pc,             \* the call generateSchedulingResponses makes next
    idx,            \* position of the recipient the loop is at
    access,         \* per recipient: outcome of the access step
    calls,          \* per recipient: the collaborator calls made, in order
    implicit,       \* per recipient: <<>> or <<[processed, autoprocessed]>>
    inbox,          \* per recipient: the item in its inbox, [stored, props]
    returned,       \* per recipient: <<>> or <<value of returnValue>>
    caught,         \* per recipient: <<>> or <<the exception caught for it>>
    consulted,      \* <<>>, or <<what iTipProcessor.canAutoRespond answered>>
    duplicates,     \* number of scheduler.calendar.duplicate() calls made
    delayedCalls,   \* reactor: the callLater tasks not yet run
    handled,        \* reactor: the tasks run, each with its outcome
    config,         \* config.Scheduling["CalDAV"]
    cuaddr,         \* the address given to matchCalendarUserAddress
    match,          \* <<>>, or <<what matchCalendarUserAddress returned>>
    fbset,          \* the recipient's calendar-free-busy-set, resolved
    hasAvailability, \* whether the inbox has the calendar-availability property
    samePrincipal,  \* organizer's principalURL() = recipient's principalURL()
    fbinfo,         \* the local fbinfo: busy, tentative and unavailable periods
    matchtotal,     \* the local matchtotal
    source,         \* position in fbset of the free-busy loop
    collected,      \* the arguments of the generateFreeBusyInfo calls made
    environ,        \* os.environ: ICAL_SERVER_CONFIG_VALIDATION, if set
    configDict,     \* the dictionary readPlist returned
    loaded,         \* <<>>, or <<what loadConfig returned>>
    notifications,  \* configDict.Notifications
    reloading,      \* configDict._reloading
    hook            \* <<>>, or <<how _updateNotifications ended>>

vars == <<organizer, freebusy, recipients, responses, autoresponses, pc, idx,
          access, calls, implicit, inbox, returned, consulted, duplicates,
          delayedCalls, handled, config, cuaddr, match, caught, fbset,
          hasAvailability, samePrincipal, fbinfo, matchtotal, source,
          collected, environ, configDict, loaded, notifications, reloading,
          hook>>

(***************************************************************************)
(* Bounds                                                                  *)
(***************************************************************************)
MaxRecipients == 2
MaxBodyLen == 3
MaxDomainLen == 1

(***************************************************************************)
(* Collaborator outcomes                                                   *)
(***************************************************************************)
LocalCalendarUser == "LocalCalendarUser"
RemoteCalendarUser == "RemoteCalendarUser"

OK == "OK"
NOT_FOUND == "NOT_FOUND"
FORBIDDEN == "FORBIDDEN"

NoAuthority == "3.8;No authority"
Success == "2.0;Success"

\* e.msg of an ImplicitProcessorException
ImplicitMessages == {"3.7;Invalid Calendar User", "5.1;Service unavailable"}

ScheduleProcessed == "schedule-processed"
ScheduleUnprocessed == "schedule-unprocessed"

NumRecipients == Len(recipients)

\* The points where the coroutine yields a Deferred: while it waits there (or
\* once it is over) the reactor is free to run a delayed call.
YieldPoints ==
    {"checkPrivileges", "locateResource", "doImplicitProcessing",
     "StoreCalendarObjectResource", "generateAttendeeFreeBusyResponse"}

Finished == {"done", "raised"}

(***************************************************************************)
(* self.responses.add(recipient, status, reqstatus, calendar): one entry   *)
(* is appended to the queue.                                               *)
(***************************************************************************)
ResponsesAdd(rs, recipient, code, reqstatus, calendar) ==
    Append(rs, [recipient |-> recipient, code |-> code,
                reqstatus |-> reqstatus, calendar |-> calendar])

(***************************************************************************)
(* The loop of generateSchedulingResponses                                 *)
(***************************************************************************)
\* Dispatch with the two branches of line 123 exchanged
Dispatch_Exchanged ==
    IF freebusy THEN "locateResource" ELSE "getAttendeeProperty"

\* "if self.freebusy: ... else: ..."
Dispatch == IF freebusy THEN "getAttendeeProperty" ELSE "locateResource"

\* StartOf without the isinstance test of line 105: the privileges are
\* checked whoever the organizer is.
StartOf_AlwaysChecks(i) ==
    IF i > NumRecipients THEN "autorespond" ELSE "checkPrivileges"

\* The first call made for the recipient at position i; past the end of the
\* list the loop is left for the auto-respond phase.
StartOf(i) ==
    IF i > NumRecipients THEN "autorespond"
    ELSE IF organizer = LocalCalendarUser THEN "checkPrivileges"
    ELSE Dispatch

\* The loop moves on to the next recipient.
NextRecipient ==
    /\ idx' = idx + 1
    /\ pc' = StartOf(idx + 1)

Called(name) == calls' = [calls EXCEPT ![idx] = Append(@, name)]

Returns(value) == returned' = [returned EXCEPT ![idx] = <<value>>]

\* An except clause catches the exception exc raised for the recipient.
Caught(exc) == caught' = [caught EXCEPT ![idx] = <<exc>>]

AccessDeniedError == [type |-> "AccessDeniedError", msg |-> ""]
ImplicitProcessorException(msg) ==
    [type |-> "ImplicitProcessorException", msg |-> msg]
\* what a bare "except:" catches
AnyException == [type |-> "Exception", msg |-> ""]

\* An exception leaves generateSchedulingResponses.
Raise ==
    /\ pc' = "raised"
    /\ UNCHANGED idx

configVars == <<organizer, freebusy, recipients>>
reactorVars == <<duplicates, delayedCalls, handled>>
matchVars == <<config, cuaddr, match>>
fbVars == <<fbset, hasAvailability, samePrincipal, fbinfo, matchtotal, source,
            collected>>
stdconfigVars == <<environ, configDict, loaded, notifications, reloading,
                   hook>>
deliveryVars == <<organizer, freebusy, recipients, responses, autoresponses,
                  pc, idx, access, calls, implicit, inbox, returned,
                  caught, consulted, duplicates, delayedCalls, handled>>


NoItem == [stored |-> FALSE, originator |-> <<>>, recipient |-> <<>>,
           state |-> <<>>]

\* scheduler.originator.cuaddr; the recipients' addresses are 1, 2, ...
OriginatorCuaddr == 0

Recipient(k, auto) == [cuaddr |-> k, autoSchedule |-> auto]

\* The state after ScheduleViaCalDAV's construction, for a recipient list rs.
InitDelivery(rs) ==
    /\ recipients = rs
    /\ responses = <<>>
    /\ autoresponses = <<>>
    /\ idx = 1
    /\ access = [i \in 1..Len(rs) |-> "none"]
    /\ calls = [i \in 1..Len(rs) |-> <<>>]
    /\ implicit = [i \in 1..Len(rs) |-> <<>>]
    /\ inbox = [i \in 1..Len(rs) |-> NoItem]
    /\ returned = [i \in 1..Len(rs) |-> <<>>]
    /\ caught = [i \in 1..Len(rs) |-> <<>>]
    /\ consulted = <<>>
    /\ duplicates = 0
    /\ delayedCalls = {}
    /\ handled = {}

\* fbinfo = ([], [], []) (line 239): busy, tentative and unavailable periods
EmptyFbinfo == [busy |-> <<>>, tentative |-> <<>>, unavailable |-> <<>>]

\* No free-busy aggregation is under way.
NoAggregation ==
    /\ fbset = <<>>
    /\ hasAvailability = FALSE
    /\ samePrincipal = FALSE
    /\ fbinfo = EmptyFbinfo
    /\ matchtotal = 0
    /\ source = 1
    /\ collected = <<>>

\* No configuration is being loaded or updated.
NoStdconfig ==
    /\ environ = <<>>
    /\ configDict = <<>>
    /\ loaded = <<>>
    /\ notifications = [Enabled |-> FALSE, Services |-> <<>>]
    /\ reloading = FALSE
    /\ hook = <<>>

RecipientLists ==
    UNION {{[k \in 1..n |-> Recipient(k, auto[k])] :
                auto \in [1..n -> BOOLEAN]} : n \in 0..MaxRecipients}

(***************************************************************************)
(* Access control, lines 105-120                                           *)
(***************************************************************************)
\* AccessDenied without its "continue": the denied recipient is delivered to.
AccessDenied_NoContinue ==
    /\ responses' = ResponsesAdd(responses, recipients[idx].cuaddr,
                                 NOT_FOUND, NoAuthority, <<>>)
    /\ Caught(AccessDeniedError)
    /\ pc' = Dispatch
    /\ UNCHANGED idx

\* except AccessDeniedError: a failure entry, and on to the next recipient.
AccessDenied ==
    /\ responses' = ResponsesAdd(responses, recipients[idx].cuaddr,
                                 NOT_FOUND, NoAuthority, <<>>)
    /\ Caught(AccessDeniedError)
    /\ NextRecipient

\* recipient.inbox.checkPrivileges(request, (Schedule(),), principal=...):
\* it returns, raises AccessDeniedError, or raises something else, which no
\* except clause of generateSchedulingResponses catches.
CheckPrivileges ==
    /\ pc = "checkPrivileges"
    /\ Called("checkPrivileges")
    /\ \E outcome \in {"granted", "denied", "error"} :
        /\ access' = [access EXCEPT ![idx] = outcome]
        /\ CASE outcome = "granted" ->
                    /\ pc' = Dispatch
                    /\ UNCHANGED <<idx, responses, caught>>
             [] outcome = "denied" -> AccessDenied
             [] outcome = "error" ->
                    /\ Raise
                    /\ UNCHANGED <<responses, caught>>
    /\ UNCHANGED <<matchVars, stdconfigVars, fbVars, configVars, reactorVars,
                   autoresponses, implicit, inbox, returned, consulted>>

(***************************************************************************)
(* generateResponse, lines 140-204                                         *)
(***************************************************************************)
\* child = yield request.locateResource(childURL): outside every try.
LocateResource ==
    /\ pc = "locateResource"
    /\ Called("locateResource")
    /\ \E outcome \in {"child", "error"} :
        IF outcome = "child"
        THEN /\ pc' = "doImplicitProcessing"
             /\ UNCHANGED idx
        ELSE Raise
    /\ UNCHANGED <<matchVars, stdconfigVars, fbVars, caught, configVars,
                   reactorVars, responses, autoresponses, access, implicit,
                   inbox, returned, consulted>>

\* except ImplicitProcessorException, e (lines 159-163)
\* ImplicitFailed answering with the fixed status of the store's except
\* clause instead of e.msg.
ImplicitFailed_NoAuthority(msg) ==
    /\ responses' = ResponsesAdd(responses, recipients[idx].cuaddr,
                                 FORBIDDEN, NoAuthority, <<>>)
    /\ Caught(ImplicitProcessorException(msg))
    /\ Returns(FALSE)
    /\ NextRecipient
    /\ UNCHANGED implicit

ImplicitFailed(msg) ==
    /\ responses' = ResponsesAdd(responses, recipients[idx].cuaddr,
                                 FORBIDDEN, msg, <<>>)
    /\ Caught(ImplicitProcessorException(msg))
    /\ Returns(FALSE)
    /\ NextRecipient
    /\ UNCHANGED implicit

\* ImplicitReturned without the test of autoprocessed: the item is stored.
ImplicitReturned_AlwaysStore(processed, autoprocessed) ==
    /\ implicit' = [implicit EXCEPT ![idx] =
                        <<[processed |-> processed,
                           autoprocessed |-> autoprocessed]>>]
    /\ pc' = "StoreCalendarObjectResource"
    /\ UNCHANGED <<idx, responses, returned, caught>>

\* if autoprocessed: (lines 165-168); else: on to the store (line 169)
ImplicitReturned(processed, autoprocessed) ==
    /\ implicit' = [implicit EXCEPT ![idx] =
                        <<[processed |-> processed,
                           autoprocessed |-> autoprocessed]>>]
    /\ IF autoprocessed
       THEN /\ responses' = ResponsesAdd(responses, recipients[idx].cuaddr,
                                         OK, Success, <<>>)
            /\ Returns(TRUE)
            /\ NextRecipient
       ELSE /\ pc' = "StoreCalendarObjectResource"
            /\ UNCHANGED <<idx, responses, returned>>
    /\ UNCHANGED caught

\* processor.doImplicitProcessing(request, calendar, originator, recipient):
\* a (processed, autoprocessed) pair, the typed exception, or any other
\* exception, which the except clause of line 159 does not catch.
DoImplicitProcessing ==
    /\ pc = "doImplicitProcessing"
    /\ Called("doImplicitProcessing")
    /\ \/ \E processed \in BOOLEAN, autoprocessed \in BOOLEAN :
            ImplicitReturned(processed, autoprocessed)
       \/ \E msg \in ImplicitMessages : ImplicitFailed(msg)
       \/ /\ Raise
          /\ UNCHANGED <<responses, implicit, returned, caught>>
    /\ UNCHANGED <<matchVars, stdconfigVars, fbVars, configVars, reactorVars,
                   autoresponses, access, inbox, consulted>>

\* the bare except of lines 182-187
\* StoreFailed with the success entry added inside the try, before the store
\* has run: the except clause adds a second entry.
StoreFailed_EntryInTry ==
    /\ responses' =
           ResponsesAdd(ResponsesAdd(responses, recipients[idx].cuaddr,
                                     OK, Success, <<>>),
                        recipients[idx].cuaddr, FORBIDDEN, NoAuthority, <<>>)
    /\ Caught(AnyException)
    /\ Returns(FALSE)
    /\ NextRecipient
    /\ UNCHANGED inbox

\* StoreFailed without the except clause of line 182: the error leaves
\* generateResponse and the loop.
StoreFailed_Escapes ==
    /\ Raise
    /\ UNCHANGED <<responses, returned, caught, inbox>>

StoreFailed ==
    /\ responses' = ResponsesAdd(responses, recipients[idx].cuaddr,
                                 FORBIDDEN, NoAuthority, <<>>)
    /\ Caught(AnyException)
    /\ Returns(FALSE)
    /\ NextRecipient
    /\ UNCHANGED inbox

\* StoreSucceeded with the success entry left for after the property writes
StoreSucceeded_NoEntryYet ==
    /\ inbox' = [inbox EXCEPT ![idx].stored = TRUE]
    /\ pc' = "writeOriginator"
    /\ UNCHANGED <<idx, responses, returned, caught>>

\* StoreSucceeded with the response queue set to the new entry alone, what
\* was there before being lost.
StoreSucceeded_Resets ==
    /\ inbox' = [inbox EXCEPT ![idx].stored = TRUE]
    /\ responses' = ResponsesAdd(<<>>, recipients[idx].cuaddr,
                                 OK, Success, <<>>)
    /\ pc' = "writeOriginator"
    /\ UNCHANGED <<idx, returned, caught>>

\* the else of lines 188-189: the item is in the inbox, the entry is added
\* and the properties are written next.
StoreSucceeded ==
    /\ inbox' = [inbox EXCEPT ![idx].stored = TRUE]
    /\ responses' = ResponsesAdd(responses, recipients[idx].cuaddr,
                                 OK, Success, <<>>)
    /\ pc' = "writeOriginator"
    /\ UNCHANGED <<idx, returned, caught>>

\* yield StoreCalendarObjectResource(...).run() (lines 171-189)
StoreCalendarObjectResource ==
    /\ pc = "StoreCalendarObjectResource"
    /\ Called("StoreCalendarObjectResource")
    /\ \/ StoreSucceeded
       \/ StoreFailed
    /\ UNCHANGED <<matchVars, stdconfigVars, fbVars, configVars, reactorVars,
                   autoresponses, access, implicit, consulted>>

\* ScheduleState with the two markers exchanged
ScheduleState_Exchanged(processed) ==
    IF processed THEN ScheduleUnprocessed ELSE ScheduleProcessed

\* The value of the CALDAV:schedule-state property (line 198)
ScheduleState(processed) ==
    IF processed THEN ScheduleProcessed ELSE ScheduleUnprocessed

\* The three child.writeDeadProperty calls (lines 191-198), one after the
\* other; none is inside a try.
WriteProperty ==
    CASE pc = "writeOriginator" ->
            /\ inbox' = [inbox EXCEPT ![idx].originator = <<OriginatorCuaddr>>]
            /\ pc' = "writeRecipient"
      [] pc = "writeRecipient" ->
            /\ inbox' = [inbox EXCEPT ![idx].recipient =
                                            <<recipients[idx].cuaddr>>]
            /\ pc' = "writeScheduleState"
      [] pc = "writeScheduleState" ->
            /\ inbox' = [inbox EXCEPT ![idx].state =
                            <<ScheduleState(implicit[idx][1].processed)>>]
            /\ pc' = "autoSchedule"

WriteDeadProperty ==
    /\ pc \in {"writeOriginator", "writeRecipient", "writeScheduleState"}
    /\ Called(pc)
    /\ \/ /\ WriteProperty
          /\ UNCHANGED idx
       \/ /\ Raise
          /\ UNCHANGED inbox
    /\ UNCHANGED <<matchVars, stdconfigVars, fbVars, caught, configVars,
                   reactorVars, responses, autoresponses, access, implicit,
                   returned, consulted>>

\* IsCandidate without the call of recipient.principal.autoSchedule()
IsCandidate_AnyPrincipal(processed, autoSchedule) == ~processed

\* IsCandidate with the "not" dropped
IsCandidate_Processed(processed, autoSchedule) == processed /\ autoSchedule

\* if not processed and recipient.principal.autoSchedule(): (line 201)
IsCandidate(processed, autoSchedule) == ~processed /\ autoSchedule

\* (recipient.principal, recipient.inbox, child), line 202
Candidate(i) == [principal |-> i, inbox |-> i, child |-> i]

\* LookForAutoSchedule handing the call to the reactor at once, inside the
\* loop over the recipients, instead of queueing a candidate.
LookForAutoSchedule_CallsLater ==
    /\ pc = "autoSchedule"
    /\ IF ~implicit[idx][1].processed /\ recipients[idx].autoSchedule
       THEN /\ delayedCalls' = delayedCalls \cup
                                 {[principal |-> idx, inbox |-> idx,
                                   calendar |-> duplicates + 1,
                                   child |-> idx]}
            /\ duplicates' = duplicates + 1
            /\ calls' = [calls EXCEPT ![idx] =
                                Append(@, "autoresponses.append")]
       ELSE UNCHANGED <<delayedCalls, duplicates, calls>>
    /\ returned' = [returned EXCEPT ![idx] = <<TRUE>>]
    /\ idx' = idx + 1
    /\ pc' = StartOf(idx + 1)
    /\ UNCHANGED <<matchVars, stdconfigVars, fbVars, caught, configVars,
                   responses, autoresponses, access, implicit, inbox,
                   consulted, handled>>

\* lines 200-204
LookForAutoSchedule ==
    /\ pc = "autoSchedule"
    /\ IF IsCandidate(implicit[idx][1].processed, recipients[idx].autoSchedule)
       THEN /\ autoresponses' = Append(autoresponses, Candidate(idx))
            /\ Called("autoresponses.append")
       ELSE UNCHANGED <<autoresponses, calls>>
    /\ Returns(TRUE)
    /\ NextRecipient
    /\ UNCHANGED <<matchVars, stdconfigVars, fbVars, caught, configVars,
                   reactorVars, responses, access, implicit, inbox,
                   consulted>>

(***************************************************************************)
(* generateFreeBusyResponse, lines 206-230                                 *)
(***************************************************************************)
\* recipient.principal.calendarUserAddresses() and
\* scheduler.calendar.getAttendeeProperty(cuas), lines 210-211: before the
\* try of line 215.
GetAttendeeProperty ==
    /\ pc = "getAttendeeProperty"
    /\ Called("getAttendeeProperty")
    /\ \E outcome \in {"attendeeProp", "error"} :
        IF outcome = "attendeeProp"
        THEN /\ pc' = "generateAttendeeFreeBusyResponse"
             /\ UNCHANGED idx
        ELSE Raise
    /\ UNCHANGED <<matchVars, stdconfigVars, fbVars, caught, configVars,
                   reactorVars, responses, autoresponses, access, implicit,
                   inbox, returned, consulted>>

\* The VFREEBUSY reply built for the recipient at position i (lines 277-284)
\* from the three lists of fbinfo
FreeBusyResult(i) ==
    [method |-> "REPLY", attendee |-> recipients[i].cuaddr,
     busy |-> fbinfo.busy, tentative |-> fbinfo.tentative,
     unavailable |-> fbinfo.unavailable]

\* FreeBusyFailed without the except clause of line 223: the error leaves
\* generateFreeBusyResponse and the loop.
FreeBusyFailed_Escapes ==
    /\ Raise
    /\ UNCHANGED <<responses, returned, caught>>

\* the bare except of lines 223-227
FreeBusyFailed ==
    /\ responses' = ResponsesAdd(responses, recipients[idx].cuaddr,
                                 FORBIDDEN, NoAuthority, <<>>)
    /\ Caught(AnyException)
    /\ Returns(FALSE)
    /\ NextRecipient

\* the else of lines 228-230
FreeBusySucceeded ==
    /\ responses' = ResponsesAdd(responses, recipients[idx].cuaddr,
                                 OK, Success, <<FreeBusyResult(idx)>>)
    /\ Returns(TRUE)
    /\ NextRecipient
    /\ UNCHANGED caught

\* fbresult = yield self.generateAttendeeFreeBusyResponse(...) (lines 215-230)
GenerateAttendeeFreeBusyResponse ==
    /\ pc = "generateAttendeeFreeBusyResponse"
    /\ Called("generateAttendeeFreeBusyResponse")
    /\ \/ FreeBusySucceeded
       \/ FreeBusyFailed
    /\ UNCHANGED <<matchVars, stdconfigVars, fbVars, configVars, reactorVars,
                   autoresponses, access, implicit, inbox, consulted>>

(***************************************************************************)
(* The auto-respond phase, lines 128-138                                   *)
(***************************************************************************)
\* Retained without the test of line 130: the candidates are kept whatever
\* canAutoRespond answers.
Retained_WhateverAnswer(candidates, can) == candidates

\* lines 129-132: the candidates kept, canAutoRespond having answered can
Retained(candidates, can) ==
    IF Len(candidates) # 0 /\ ~can THEN <<>> ELSE candidates

\* Task handing the scheduler's own calendar to the executor instead of the
\* duplicate made for the call.
Task_SharedCalendar(candidate, duplicate) ==
    [principal |-> candidate.principal, inbox |-> candidate.inbox,
     calendar |-> 0, child |-> candidate.child]

\* The arguments of itip.handleRequest at line 138; calendar is the number of
\* the duplicate made for the call (the scheduler's own calendar is 0).
Task(candidate, duplicate) ==
    [principal |-> candidate.principal, inbox |-> candidate.inbox,
     calendar |-> duplicate, child |-> candidate.child]

\* CallLater going through the candidates from the last to the first
CallLater_Reversed(candidates, made) ==
    {Task(candidates[k], made + Len(candidates) - k + 1) :
        k \in 1..Len(candidates)}

\* lines 135-138: one reactor.callLater per candidate, each with a duplicate
\* of the calendar made for it; made is the number of duplicates made before.
CallLater(candidates, made) ==
    {Task(candidates[k], made + k) : k \in 1..Len(candidates)}

\* AutoRespond calling itip.handleRequest itself and waiting for it, instead
\* of reactor.callLater.
AutoRespond_RunsHandlers ==
    /\ pc = "autorespond"
    /\ \E can \in BOOLEAN :
        /\ consulted' = IF Len(autoresponses) # 0 THEN <<can>> ELSE <<>>
        /\ autoresponses' = Retained(autoresponses, can)
        /\ handled' =
               {[task |-> t, outcome |-> "handled"] :
                    t \in CallLater(Retained(autoresponses, can), duplicates)}
        /\ duplicates' = duplicates + Len(Retained(autoresponses, can))
    /\ pc' = "done"
    /\ UNCHANGED <<matchVars, stdconfigVars, fbVars, caught, configVars,
                   responses, idx, access, calls, implicit, inbox, returned,
                   delayedCalls>>

\* Lines 128-138 run without yielding: the filter, then the callLater loop.
AutoRespond ==
    /\ pc = "autorespond"
    /\ \E can \in BOOLEAN :
        /\ consulted' = IF Len(autoresponses) # 0 THEN <<can>> ELSE <<>>
        /\ autoresponses' = Retained(autoresponses, can)
        /\ delayedCalls' =
               delayedCalls \cup CallLater(Retained(autoresponses, can),
                                           duplicates)
        /\ duplicates' = duplicates + Len(Retained(autoresponses, can))
    /\ pc' = "done"
    /\ UNCHANGED <<matchVars, stdconfigVars, fbVars, caught, configVars,
                   responses, idx, access, calls, implicit, inbox, returned,
                   handled>>

(***************************************************************************)
(* The reactor runs a delayed call: iTipProcessor.handleRequest(request,   *)
(* principal, inbox, calendar, child).  It can do so only while the        *)
(* coroutine waits at a yield or is over.  The call is handed neither the  *)
(* response queue nor the coroutine; whether it succeeds or fails, nothing *)
(* of the delivery's state changes.                                        *)
(***************************************************************************)
HandleRequest ==
    /\ pc \in YieldPoints \cup Finished
    /\ \E task \in delayedCalls, outcome \in {"handled", "failed"} :
        /\ delayedCalls' = delayedCalls \ {task}
        /\ handled' = handled \cup {[task |-> task, outcome |-> outcome]}
    /\ UNCHANGED <<matchVars, stdconfigVars, fbVars, caught, configVars,
                   responses, autoresponses, pc, idx, access, calls, implicit,
                   inbox, returned, consulted, duplicates>>

(***************************************************************************)
(* matchCalendarUserAddress, lines 69-90.  A string is the sequence of its *)
(* characters.                                                             *)
(***************************************************************************)
Mailto == <<"m", "a", "i", "l", "t", "o", ":">>
Http == <<"h", "t", "t", "p", ":", "/", "/">>
Https == <<"h", "t", "t", "p", "s", ":", "/", "/">>
Slash == <<"/">>
Urn == <<"u", "r", "n", ":">>

\* str.startswith and str.endswith
StartsWith(s, prefix) ==
    /\ Len(prefix) <= Len(s)
    /\ SubSeq(s, 1, Len(prefix)) = prefix

EndsWith(s, suffix) ==
    /\ Len(suffix) <= Len(s)
    /\ SubSeq(s, Len(s) - Len(suffix) + 1, Len(s)) = suffix

\* s[n:]
From(s, n) == SubSeq(s, n + 1, Len(s))

\* s.split(sep) for a separator of one character: the list of the pieces.
RECURSIVE Split(_, _)
Split(s, sep) ==
    IF \A k \in 1..Len(s) : s[k] # sep
    THEN <<s>>
    ELSE LET k == CHOOSE j \in 1..Len(s) :
                      /\ s[j] = sep
                      /\ \A h \in 1..(j - 1) : s[h] # sep
         IN  <<SubSeq(s, 1, k - 1)>> \o Split(From(s, k), sep)

\* DeliveryService.matchCalendarUserAddress: whether one of the configured
\* address patterns matches at the start of the address.  A pattern is a
\* literal here.
DefaultMatch(addr, patterns) ==
    \E k \in 1..Len(patterns) : StartsWith(addr, patterns[k])

\* "return super(ScheduleViaCalDAV, cls).matchCalendarUserAddress(cuaddr)"
Super(addr, cfg) ==
    [result |-> DefaultMatch(addr, cfg.AddressPatterns), super |-> TRUE]

Matched == [result |-> TRUE, super |-> FALSE]

\* MailtoDomainMatches without the split at "?"
MailtoDomainMatches_NoSplit(addr, domain) ==
    EndsWith(From(addr, 7), domain)

\* lines 74-76
MailtoDomainMatches(addr, domain) ==
    LET splits == Split(From(addr, 7), "?")
    IN  EndsWith(splits[1], domain)

\* lines 80-82: split(":")[0] is the piece before the first colon
HttpDomainMatches(addr, domain) ==
    LET splits == Split(From(Split(addr, ":")[1], 2), "?")
    IN  EndsWith(splits[1], domain)

\* MatchCalendarUserAddress without the branch of lines 85-87
MatchCalendarUserAddress_NoRelative(addr, cfg) ==
    IF StartsWith(addr, Mailto) /\ cfg.EmailDomain # <<>>
    THEN IF MailtoDomainMatches(addr, cfg.EmailDomain)
         THEN Matched
         ELSE Super(addr, cfg)
    ELSE IF /\ StartsWith(addr, Http) \/ StartsWith(addr, Https)
            /\ cfg.HTTPDomain # <<>>
    THEN IF HttpDomainMatches(addr, cfg.HTTPDomain)
         THEN Matched
         ELSE Super(addr, cfg)
    ELSE Super(addr, cfg)

\* lines 69-90
MatchCalendarUserAddress(addr, cfg) ==
    IF StartsWith(addr, Mailto) /\ cfg.EmailDomain # <<>>
    THEN IF MailtoDomainMatches(addr, cfg.EmailDomain)
         THEN Matched
         ELSE Super(addr, cfg)
    ELSE IF /\ StartsWith(addr, Http) \/ StartsWith(addr, Https)
            /\ cfg.HTTPDomain # <<>>
    THEN IF HttpDomainMatches(addr, cfg.HTTPDomain)
         THEN Matched
         ELSE Super(addr, cfg)
    ELSE IF StartsWith(addr, Slash)
    THEN Matched
    ELSE Super(addr, cfg)

\* DEFAULT_CONFIG["Scheduling"]["CalDAV"]
DefaultConfig ==
    [EmailDomain |-> <<>>, HTTPDomain |-> <<>>, AddressPatterns |-> <<>>]

SeqsUpTo(alphabet, n) == UNION {[1..k -> alphabet] : k \in 0..n}

Domains == SeqsUpTo({"e", "s"}, MaxDomainLen)

PatternLists == {<<>>, <<Mailto \o <<"x">> >>, <<<<"h">>, Slash>>}

Configs ==
    [EmailDomain : Domains, HTTPDomain : Domains,
     AddressPatterns : PatternLists]

Addresses ==
    {prefix \o body : prefix \in {Mailto, Http, Https, Slash, Urn, <<>>},
                      body \in SeqsUpTo({"e", "x", "?"}, MaxBodyLen)}

\* One call of the class method.
Match ==
    /\ match = <<>>
    /\ match' = <<MatchCalendarUserAddress(cuaddr, config)>>
    /\ UNCHANGED <<deliveryVars, fbVars, stdconfigVars, config, cuaddr>>

(***************************************************************************)
(* generateAttendeeFreeBusyResponse step by step, lines 232-286.  The      *)
(* coroutine runs inside the try of line 215: whatever a collaborator      *)
(* raises is caught by the bare except of line 223.                        *)
(***************************************************************************)
MaxSources == 2

\* self.scheduler.timeRange, self.scheduler.excludeUID and
\* self.scheduler.organizer.cuaddr
TimeRange == [start |-> 10, end |-> 20]
ExcludeUID == "excluded-uid"
OrganizerCuaddr == "mailto:organizer"

Event(uid, start, end, fbtype) ==
    [uid |-> uid, period |-> [start |-> start, end |-> end],
     fbtype |-> fbtype]

\* Events of the recipient's calendars: one busy inside the query range,
\* one tentative inside it, the event being scheduled, which overlaps the
\* range, and one outside the range.
BusyEvent == Event("busy-uid", 12, 14, "BUSY")
TentativeEvent == Event("tentative-uid", 15, 16, "BUSY-TENTATIVE")
ExcludedEvent == Event(ExcludeUID, 11, 25, "BUSY")
OutsideEvent == Event("outside-uid", 30, 40, "BUSY")

\* What request.locateResource(calendarResourceURL) can answer: None, a
\* resource that does not exist, one that is no calendar collection, or a
\* calendar collection with its events.
NoResource ==
    [located |-> FALSE, exists |-> FALSE, isCalendarCollection |-> FALSE,
     events |-> <<>>]
MissingCollection ==
    [located |-> TRUE, exists |-> FALSE, isCalendarCollection |-> FALSE,
     events |-> <<>>]
NotACalendar ==
    [located |-> TRUE, exists |-> TRUE, isCalendarCollection |-> FALSE,
     events |-> <<>>]
CalendarCollection(events) ==
    [located |-> TRUE, exists |-> TRUE, isCalendarCollection |-> TRUE,
     events |-> events]

Resources ==
    {NoResource, MissingCollection, NotACalendar,
     CalendarCollection(<<BusyEvent>>),
     CalendarCollection(<<ExcludedEvent, TentativeEvent>>),
     CalendarCollection(<<OutsideEvent, BusyEvent>>)}

\* The free-busy sets calendarFreeBusyURIs can answer, each URL given as the
\* resource it resolves to.
FreeBusySets == SeqsUpTo(Resources, MaxSources)

\* Skipped with only the None test of line 259
Skipped_OnlyNone(calendarResource) == ~calendarResource.located

\* The test of line 259: the source is ignored.
Skipped(calendarResource) ==
    \/ ~calendarResource.located
    \/ ~calendarResource.exists
    \/ ~calendarResource.isCalendarCollection

\* SameCalendarUser without the isinstance test of line 250
SameCalendarUser_AnyOrganizer(equal) == equal

\* lines 250-253; equal is whether the two principalURL() are the same
SameCalendarUser(equal) ==
    IF organizer = LocalCalendarUser THEN equal ELSE FALSE

\* CollectorArgs without the excludeuid keyword: the collector's default,
\* no UID excluded.
CollectorArgs_NoExclude(calendarResource) ==
    [calendarResource |-> calendarResource, fbinfo |-> fbinfo,
     timeRange |-> TimeRange, matchtotal |-> matchtotal,
     excludeuid |-> "", organizer |-> OrganizerCuaddr,
     same_calendar_user |-> SameCalendarUser(samePrincipal),
     servertoserver |-> (organizer = RemoteCalendarUser)]

\* CollectorArgs with a fresh counter for every source instead of the
\* running matchtotal
CollectorArgs_FreshTotal(calendarResource) ==
    [calendarResource |-> calendarResource, fbinfo |-> fbinfo,
     timeRange |-> TimeRange, matchtotal |-> 0,
     excludeuid |-> ExcludeUID, organizer |-> OrganizerCuaddr,
     same_calendar_user |-> SameCalendarUser(samePrincipal),
     servertoserver |-> (organizer = RemoteCalendarUser)]

\* The arguments of report_common.generateFreeBusyInfo, lines 264-274
CollectorArgs(calendarResource) ==
    [calendarResource |-> calendarResource, fbinfo |-> fbinfo,
     timeRange |-> TimeRange, matchtotal |-> matchtotal,
     excludeuid |-> ExcludeUID, organizer |-> OrganizerCuaddr,
     same_calendar_user |-> SameCalendarUser(samePrincipal),
     servertoserver |-> (organizer = RemoteCalendarUser)]

Overlaps(period, range) ==
    period.start < range.end /\ period.end > range.start

\* The events of the collection the collector counts: those that overlap
\* the time range and do not have the excluded UID.
Matching(args) ==
    LET counted(e) == /\ Overlaps(e.period, args.timeRange)
                      /\ e.uid # args.excludeuid
    IN  SelectSeq(args.calendarResource.events, counted)

PeriodsOf(events, fbtype) ==
    LET typed(e) == e.fbtype = fbtype
        chosen == SelectSeq(events, typed)
    IN  [k \in 1..Len(chosen) |-> chosen[k].period]

\* report_common.generateFreeBusyInfo: the periods of the matching events
\* are added to the lists of fbinfo, and the new match total is returned.
Collect(args) ==
    [fbinfo |-> [busy |-> args.fbinfo.busy \o
                              PeriodsOf(Matching(args), "BUSY"),
                 tentative |-> args.fbinfo.tentative \o
                              PeriodsOf(Matching(args), "BUSY-TENTATIVE"),
                 unavailable |-> args.fbinfo.unavailable],
     matchtotal |-> args.matchtotal + Len(Matching(args))]

\* report_common.processAvailabilityFreeBusy(availability, fbinfo,
\* timeRange): the time of the range outside the available hours goes to
\* the third list.
UnavailablePeriod == [start |-> 18, end |-> 20]
ProcessAvailabilityFreeBusy(info, range) ==
    [info EXCEPT !.unavailable = Append(@, UnavailablePeriod)]

\* The call the loop of line 257 makes when it is at position s of fbset
LoopAt(s) ==
    IF s > Len(fbset) THEN "buildFreeBusyResult"
    ELSE "locateCalendarResource"

\* lines 248-257: the two principal URLs are what they are, same_calendar_user
\* is computed from them when it is passed on, matchtotal = 0, and the loop
\* begins
EnterLoop ==
    /\ \E equal \in BOOLEAN : samePrincipal' = equal
    /\ matchtotal' = 0
    /\ source' = 1
    /\ pc' = LoopAt(1)
    /\ UNCHANGED <<idx, responses, returned, caught>>

\* the continue of line 262, or the end of the loop body
NextSource ==
    /\ source' = source + 1
    /\ pc' = LoopAt(source + 1)
    /\ UNCHANGED <<idx, responses, returned, caught>>

\* fbset = yield recipient.principal.calendarFreeBusyURIs(request) and
\* fbinfo = ([], [], []), lines 236-239
CalendarFreeBusyURIs ==
    /\ pc = "generateAttendeeFreeBusyResponse"
    /\ \/ /\ Called("calendarFreeBusyURIs")
          /\ \E uris \in FreeBusySets : fbset' = uris
          /\ fbinfo' = EmptyFbinfo
          /\ pc' = "hasProperty"
          /\ UNCHANGED <<idx, responses, returned, caught>>
       \/ /\ Called("calendarFreeBusyURIs:error")
          /\ FreeBusyFailed
          /\ UNCHANGED <<fbset, fbinfo>>
    /\ UNCHANGED <<hasAvailability, samePrincipal, matchtotal, source,
                   collected>>
    /\ UNCHANGED <<matchVars, stdconfigVars, configVars, reactorVars,
                   autoresponses, access, implicit, inbox, consulted>>

\* HasProperty without the test of line 243: the property is read whatever
\* hasProperty answered.
HasProperty_AlwaysReads ==
    /\ pc = "hasProperty"
    /\ \/ /\ Called("hasProperty")
          /\ hasAvailability' \in BOOLEAN
          /\ pc' = "readProperty"
          /\ UNCHANGED <<idx, responses, returned, caught, samePrincipal,
                         matchtotal, source>>
       \/ /\ Called("hasProperty:error")
          /\ FreeBusyFailed
          /\ UNCHANGED <<hasAvailability, samePrincipal, matchtotal, source>>
    /\ UNCHANGED <<fbset, fbinfo, collected>>
    /\ UNCHANGED <<matchVars, stdconfigVars, configVars, reactorVars,
                   autoresponses, access, implicit, inbox, consulted>>

\* has_prop = yield recipient.inbox.hasProperty(...), line 242; without the
\* property, lines 248-257 follow at once.
HasProperty ==
    /\ pc = "hasProperty"
    /\ \/ /\ Called("hasProperty")
          /\ hasAvailability' = TRUE
          /\ pc' = "readProperty"
          /\ UNCHANGED <<idx, responses, returned, caught, samePrincipal,
                         matchtotal, source>>
       \/ /\ Called("hasProperty")
          /\ hasAvailability' = FALSE
          /\ EnterLoop
       \/ /\ Called("hasProperty:error")
          /\ FreeBusyFailed
          /\ UNCHANGED <<hasAvailability, samePrincipal, matchtotal, source>>
    /\ UNCHANGED <<fbset, fbinfo, collected>>
    /\ UNCHANGED <<matchVars, stdconfigVars, configVars, reactorVars,
                   autoresponses, access, implicit, inbox, consulted>>

\* lines 243-246: the availability is read and merged into fbinfo, then
\* lines 248-257 follow.
ReadProperty ==
    /\ pc = "readProperty"
    /\ \/ /\ Called("readProperty")
          /\ fbinfo' = ProcessAvailabilityFreeBusy(fbinfo, TimeRange)
          /\ EnterLoop
       \/ /\ Called("readProperty:error")
          /\ FreeBusyFailed
          /\ UNCHANGED <<fbinfo, samePrincipal, matchtotal, source>>
    /\ UNCHANGED <<fbset, hasAvailability, collected>>
    /\ UNCHANGED <<matchVars, stdconfigVars, configVars, reactorVars,
                   autoresponses, access, implicit, inbox, consulted>>

\* calendarResource = yield request.locateResource(calendarResourceURL)
\* and the test of line 259, lines 258-262
LocateCalendarResource ==
    /\ pc = "locateCalendarResource"
    /\ \/ /\ Called("locateCalendarResource")
          /\ IF Skipped(fbset[source])
             THEN NextSource
             ELSE /\ pc' = "generateFreeBusyInfo"
                  /\ UNCHANGED <<idx, responses, returned, caught, source>>
       \/ /\ Called("locateCalendarResource:error")
          /\ FreeBusyFailed
          /\ UNCHANGED source
    /\ UNCHANGED <<fbset, hasAvailability, samePrincipal, fbinfo,
                   matchtotal, collected>>
    /\ UNCHANGED <<matchVars, stdconfigVars, configVars, reactorVars,
                   autoresponses, access, implicit, inbox, consulted>>

\* matchtotal = yield report_common.generateFreeBusyInfo(...), lines 264-274
GenerateFreeBusyInfo ==
    /\ pc = "generateFreeBusyInfo"
    /\ collected' = Append(collected, CollectorArgs(fbset[source]))
    /\ \/ /\ Called("generateFreeBusyInfo")
          /\ fbinfo' = Collect(CollectorArgs(fbset[source])).fbinfo
          /\ matchtotal' = Collect(CollectorArgs(fbset[source])).matchtotal
          /\ NextSource
       \/ /\ Called("generateFreeBusyInfo:error")
          /\ FreeBusyFailed
          /\ UNCHANGED <<fbinfo, matchtotal, source>>
    /\ UNCHANGED <<fbset, hasAvailability, samePrincipal>>
    /\ UNCHANGED <<matchVars, stdconfigVars, configVars, reactorVars,
                   autoresponses, access, implicit, inbox, consulted>>

\* fbresult = report_common.buildFreeBusyResult(...) and returnValue, lines
\* 277-286, then the else of lines 228-230
BuildFreeBusyResult ==
    /\ pc = "buildFreeBusyResult"
    /\ \/ /\ Called("buildFreeBusyResult")
          /\ FreeBusySucceeded
       \/ /\ Called("buildFreeBusyResult:error")
          /\ FreeBusyFailed
    /\ UNCHANGED fbVars
    /\ UNCHANGED <<matchVars, stdconfigVars, configVars, reactorVars,
                   autoresponses, access, implicit, inbox, consulted>>

(***************************************************************************)
(* Specification of the delivery                                           *)
(***************************************************************************)
Init ==
    /\ organizer \in {LocalCalendarUser, RemoteCalendarUser}
    /\ freebusy \in BOOLEAN
    /\ \E rs \in RecipientLists : InitDelivery(rs)
    /\ pc = StartOf(1)
    /\ NoAggregation
    /\ NoStdconfig
    /\ config = DefaultConfig
    /\ cuaddr = <<>>
    /\ match = <<>>

Next ==
    \/ CheckPrivileges
    \/ LocateResource
    \/ DoImplicitProcessing
    \/ StoreCalendarObjectResource
    \/ WriteDeadProperty
    \/ LookForAutoSchedule
    \/ GetAttendeeProperty
    \/ GenerateAttendeeFreeBusyResponse
    \/ AutoRespond
    \/ HandleRequest

Spec == Init /\ [][Next]_vars

(***************************************************************************)
(* Specification of the address classifier: a configuration and an address *)
(* are drawn, and the class method is applied.  No delivery is under way.  *)
(***************************************************************************)
InitMatch ==
    /\ config \in Configs
    /\ cuaddr \in Addresses
    /\ match = <<>>
    /\ organizer = LocalCalendarUser
    /\ freebusy = FALSE
    /\ InitDelivery(<<>>)
    /\ NoAggregation
    /\ NoStdconfig
    /\ pc = "done"

NextMatch == Match

SpecMatch == InitMatch /\ [][NextMatch]_vars


(***************************************************************************)
(* Specification of the free-busy aggregation: a free-busy request for one *)
(* recipient, generateAttendeeFreeBusyResponse taken step by step.         *)
(***************************************************************************)
InitFB ==
    /\ organizer \in {LocalCalendarUser, RemoteCalendarUser}
    /\ freebusy = TRUE
    /\ InitDelivery(<<Recipient(1, FALSE)>>)
    /\ pc = StartOf(1)
    /\ NoAggregation
    /\ NoStdconfig
    /\ config = DefaultConfig
    /\ cuaddr = <<>>
    /\ match = <<>>

NextFB ==
    \/ CheckPrivileges
    \/ GetAttendeeProperty
    \/ CalendarFreeBusyURIs
    \/ HasProperty
    \/ ReadProperty
    \/ LocateCalendarResource
    \/ GenerateFreeBusyInfo
    \/ BuildFreeBusyResult
    \/ AutoRespond

SpecFB == InitFB /\ [][NextFB]_vars

(***************************************************************************)
(* stdconfig: PListConfigProvider.loadConfig and _cleanup, lines 443-454   *)
(* and 723-769.  A dictionary is a function from its keys to its values.   *)
(***************************************************************************)
\* Some keys of DEFAULT_CONFIG, and some keys it does not have
DefaultKeys == {"ServerHostName", "BindAddresses"}
UnknownKeys == {"pydirConfig", "BindAddress"}

\* self._defaults
DefaultDict == [k \in DefaultKeys |-> "default"]

\* The dictionaries readPlist can return
ConfigDicts ==
    UNION {[keys -> {"default", "site"}] :
              keys \in SUBSET (DefaultKeys \cup UnknownKeys)}

\* os.environ, as far as _cleanup reads it
ConfigKey == "ICAL_SERVER_CONFIG_VALIDATION"
Environs ==
    {<<>>} \cup {[k \in {ConfigKey} |-> v] : v \in {"loose", "strict", ""}}

\* del d[key], and d[key] = value
Del(d, key) == [k \in DOMAIN d \ {key} |-> d[k]]
Put(d, key, value) ==
    [k \in DOMAIN d \cup {key} |-> IF k = key THEN value ELSE d[k]]

\* renamedOptions, lines 747-749: empty
RenamedOptions == <<>>

\* Unknown deleting the key whatever the environment says
Unknown_IgnoresEnviron(state, key, env) ==
    [state EXCEPT !.cleanDict = Del(@, key)]

\* unknown(key), lines 726-733; state holds the two dictionaries
Unknown(state, key, env) ==
    IF ConfigKey \in DOMAIN env /\ env[ConfigKey] = "loose"
    THEN state
    ELSE [state EXCEPT !.cleanDict = Del(@, key)]

\* renamed(oldKey, newKey) with the test of deprecated, lines 735-745
Renamed(state, oldKey, newKey) ==
    IF oldKey \in DOMAIN state.configDict /\ newKey \in DOMAIN state.configDict
    THEN [state EXCEPT !.error = <<"ConfigurationError">>]
    ELSE [state EXCEPT !.cleanDict =
                           Del(Put(@, newKey, state.configDict[oldKey]),
                               oldKey)]

\* The body of the loop of line 751 for one key
CleanKey(state, key, defaultDict, env) ==
    IF key \in DOMAIN defaultDict THEN state
    ELSE IF key \in DOMAIN RenamedOptions
         THEN Renamed(state, key, RenamedOptions[key])
         ELSE Unknown(state, key, env)

\* for key in configDict, lines 751-767: keys are the keys not yet taken
RECURSIVE CleanupLoop(_, _, _, _)
CleanupLoop(keys, state, defaultDict, env) ==
    IF keys = {} \/ state.error # <<>> THEN state
    ELSE LET key == CHOOSE k \in keys : TRUE
         IN  CleanupLoop(keys \ {key},
                         CleanKey(state, key, defaultDict, env),
                         defaultDict, env)

\* _cleanup(configDict, defaultDict): cleanDict starts as copy.deepcopy of
\* configDict, a dictionary of its own with the same content.  The result
\* holds both dictionaries as the call leaves them.
Cleanup(dict, defaultDict, env) ==
    CleanupLoop(DOMAIN dict,
                [cleanDict |-> dict, configDict |-> dict, error |-> <<>>],
                defaultDict, env)

\* loadConfig, lines 445-454: without a file name, or when the file cannot
\* be read, the empty dictionary is returned; what readPlist returned goes
\* through _cleanup.
LoadConfig ==
    /\ loaded = <<>>
    /\ \E outcome \in {"no file name", "IOError", "read"} :
        IF outcome = "read"
        THEN /\ loaded' =
                    <<[outcome |-> outcome,
                       error |-> Cleanup(configDict, DefaultDict,
                                         environ).error,
                       configDict |-> Cleanup(configDict, DefaultDict,
                                              environ).cleanDict]>>
             /\ configDict' = Cleanup(configDict, DefaultDict,
                                      environ).configDict
        ELSE /\ loaded' = <<[outcome |-> outcome, error |-> <<>>,
                             configDict |-> <<>>]>>
             /\ UNCHANGED configDict
    /\ UNCHANGED <<environ, notifications, reloading, hook>>
    /\ UNCHANGED <<deliveryVars, fbVars, matchVars>>

(***************************************************************************)
(* stdconfig._updateNotifications, lines 610-648                           *)
(***************************************************************************)
XMPPNotifierService == "twistedcaldav.notify.XMPPNotifierService"
SimpleLineNotifierService == "twistedcaldav.notify.SimpleLineNotifierService"

\* The two services of DEFAULT_CONFIG (lines 329-351), with the values a
\* site can give their fields
SimpleLineNotifiers ==
    {[Service |-> SimpleLineNotifierService, Enabled |-> e, Port |-> 62308] :
        e \in BOOLEAN}

XMPPNotifiers ==
    {[Service |-> XMPPNotifierService, Enabled |-> e, Host |-> h,
      Port |-> p, JID |-> j, Password |-> w, ServiceAddress |-> a,
      NodeConfiguration |->
          [key \in {"pubsub#deliver_payloads", "pubsub#persist_items"} |->
              "1"],
      KeepAliveSeconds |-> 120, HeartbeatMinutes |-> m,
      AllowedJIDs |-> <<>>] :
        e \in BOOLEAN, h \in {"", "xmpp.host.name"}, p \in {0, 5222},
        j \in {"", "jid@xmpp.host.name"}, w \in {"", "secret"},
        a \in {"", "pubsub.xmpp.host.name"}, m \in {0, 30}}

\* configDict.Notifications["Services"]: none, one or both of the services
ServiceDicts ==
    UNION {{[name \in names |->
                IF name = "XMPPNotifier" THEN x ELSE s] :
               x \in XMPPNotifiers, s \in SimpleLineNotifiers} :
           names \in SUBSET {"SimpleLineNotifier", "XMPPNotifier"}}

\* What getPasswordFromKeychain(service["JID"]) can do
KeychainOutcomes ==
    {"password", "KeychainAccessError", "KeychainPasswordNotFound"}

\* AnyEnabled asking every service to be enabled
AnyEnabled_Every(services) ==
    \A name \in DOMAIN services : services[name]["Enabled"]

\* lines 619-624: the for/else over the services
AnyEnabled(services) ==
    \E name \in DOMAIN services : services[name]["Enabled"]

\* "not value" for the value of a field of a service
Empty(key, value) ==
    CASE key \in {"Service", "Host", "JID", "Password", "ServiceAddress"} ->
             value = ""
      [] key \in {"Port", "KeepAliveSeconds", "HeartbeatMinutes"} ->
             value = 0
      [] key = "Enabled" -> ~value
      [] key \in {"NodeConfiguration", "AllowedJIDs"} ->
             DOMAIN value = {}

\* lines 644-648: the check for empty fields
HasEmptyField(service) ==
    \E key \in DOMAIN service :
        /\ Empty(key, service[key])
        /\ key \notin {"AllowedJIDs", "HeartbeatMinutes", "Password"}

\* lines 632-641: the password of the keychain, when there is one
WithKeychainPassword(service, outcome) ==
    IF outcome = "password"
    THEN [service EXCEPT !["Password"] = "keychain-secret"]
    ELSE service

\* The body of the loop of line 626 for the service of one name
UpdateService(state, name, outcome) ==
    LET service == state.notifications.Services[name]
        updated == WithKeychainPassword(service, outcome)
    IN  IF service["Service"] = XMPPNotifierService /\ service["Enabled"]
        THEN [notifications |->
                  [state.notifications EXCEPT !.Services[name] = updated],
              error |-> IF HasEmptyField(updated)
                        THEN <<"ConfigurationError">> ELSE <<>>]
        ELSE state

\* for key, service in ...iteritems(), lines 626-648; keychain gives, for
\* each name, what the keychain does when it is asked
RECURSIVE ServicesLoop(_, _, _)
ServicesLoop(names, state, keychain) ==
    IF names = {} \/ state.error # <<>> THEN state
    ELSE LET name == CHOOSE n \in names : TRUE
         IN  ServicesLoop(names \ {name},
                          UpdateService(state, name, keychain[name]),
                          keychain)

\* _updateNotifications(configDict)
UpdateNotifications(n, isReloading, keychain) ==
    IF isReloading THEN [notifications |-> n, error |-> <<>>]
    ELSE ServicesLoop(DOMAIN n.Services,
                      [notifications |->
                           [n EXCEPT !.Enabled = AnyEnabled(n.Services)],
                       error |-> <<>>],
                      keychain)

\* The hook runs once.
UpdateNotificationsHook ==
    /\ hook = <<>>
    /\ \E keychain \in [DOMAIN notifications.Services -> KeychainOutcomes] :
        /\ notifications' =
               UpdateNotifications(notifications, reloading,
                                   keychain).notifications
        /\ hook' =
               IF UpdateNotifications(notifications, reloading,
                                      keychain).error # <<>>
               THEN <<"ConfigurationError">>
               ELSE <<"returned">>
    /\ UNCHANGED <<environ, configDict, loaded, reloading>>
    /\ UNCHANGED <<deliveryVars, fbVars, matchVars>>

(***************************************************************************)
(* Specification of the configuration load: the content of the file and    *)
(* the environment are drawn, and loadConfig runs.                         *)
(***************************************************************************)
InitCleanup ==
    /\ environ \in Environs
    /\ configDict \in ConfigDicts
    /\ loaded = <<>>
    /\ notifications = [Enabled |-> FALSE, Services |-> <<>>]
    /\ reloading = FALSE
    /\ hook = <<>>
    /\ organizer = LocalCalendarUser
    /\ freebusy = FALSE
    /\ InitDelivery(<<>>)
    /\ NoAggregation
    /\ pc = "done"
    /\ config = DefaultConfig
    /\ cuaddr = <<>>
    /\ match = <<>>

NextCleanup == LoadConfig

SpecCleanup == InitCleanup /\ [][NextCleanup]_vars

(***************************************************************************)
(* Specification of the notifications hook: the Notifications section and  *)
(* the reloading flag are drawn, and the hook runs.                        *)
(***************************************************************************)
InitNotifications ==
    /\ notifications \in [Enabled : BOOLEAN, Services : ServiceDicts]
    /\ reloading \in BOOLEAN
    /\ hook = <<>>
    /\ environ = <<>>
    /\ configDict = <<>>
    /\ loaded = <<>>
    /\ organizer = LocalCalendarUser
    /\ freebusy = FALSE
    /\ InitDelivery(<<>>)
    /\ NoAggregation
    /\ pc = "done"
    /\ config = DefaultConfig
    /\ cuaddr = <<>>
    /\ match = <<>>

NextNotifications == UpdateNotificationsHook

SpecNotifications == InitNotifications /\ [][NextNotifications]_vars

(***************************************************************************)
(* Properties of the delivery                                              *)
(***************************************************************************)
\* The positions of the response entries added for the recipient at i
EntriesFor(i) ==
    {k \in 1..Len(responses) : responses[k].recipient = recipients[i].cuaddr}

\* The one entry of the recipient at i is (code, reqstatus), with no calendar
OneEntry(i, code, reqstatus) ==
    /\ Cardinality(EntriesFor(i)) = 1
    /\ \A k \in EntriesFor(i) :
        responses[k] = [recipient |-> recipients[i].cuaddr, code |-> code,
                        reqstatus |-> reqstatus, calendar |-> <<>>]

\* How many times a call appears in the calls made for the recipient at i
TimesCalled(i, name) ==
    Cardinality({k \in 1..Len(calls[i]) : calls[i][k] = name})

\* The candidates in the list, and the tasks given to the reactor, that
\* belong to the recipient at i
CandidatesOf(i) ==
    {k \in 1..Len(autoresponses) : autoresponses[k].principal = i}

TasksOf(i) ==
    {t \in delayedCalls \cup {h.task : h \in handled} : t.principal = i}

NoCandidate(i) ==
    /\ CandidatesOf(i) = {}
    /\ TasksOf(i) = {}
    /\ TimesCalled(i, "autoresponses.append") = 0

\* C1: for every recipient list and every combination of collaborator
\* outcomes, generateSchedulingResponses ends with exactly one response entry
\* for each recipient of the list, N entries in all.
C1_OneEntryPerRecipient ==
    pc \in Finished =>
        /\ Len(responses) = NumRecipients
        /\ \A i \in 1..NumRecipients : Cardinality(EntriesFor(i)) = 1

\* C2: no exception raised inside a recipient's path leaves
\* generateSchedulingResponses: each becomes a failure entry of that recipient
\* and the recipients after it are processed.
C2_NoExceptionEscapes ==
    /\ pc # "raised"
    /\ \A i \in 1..NumRecipients :
        idx > i => Cardinality(EntriesFor(i)) = 1

\* C3: with a local organizer, a recipient whose inbox denies the schedule
\* privilege gets a NOT_FOUND failure entry "3.8;No authority"; nothing else
\* is called for it (no implicit processing, no store, no free-busy
\* aggregation), it yields no auto-response candidate, and the loop goes on
\* to the next recipient.
C3_AccessDenied ==
    \A i \in 1..NumRecipients :
        access[i] = "denied" =>
            /\ organizer = LocalCalendarUser
            /\ OneEntry(i, NOT_FOUND, NoAuthority)
            /\ calls[i] = <<"checkPrivileges">>
            /\ implicit[i] = <<>>
            /\ inbox[i] = NoItem
            /\ returned[i] = <<>>
            /\ NoCandidate(i)
            /\ idx > i

\* C3's case: a denied recipient followed by one that was processed
C3_Witness ==
    \E i \in 1..NumRecipients :
        /\ access[i] = "denied"
        /\ i < NumRecipients
        /\ Len(calls[i + 1]) > 1

\* C4: when implicit processing returns autoprocessed = true, nothing is
\* stored in the inbox and no property is written, the entry is OK with
\* "2.0;Success", generateResponse returns True and no auto-response
\* candidate is produced, whatever processed and auto-schedule are.
C4_Autoprocessed ==
    \A i \in 1..NumRecipients :
        (implicit[i] # <<>> /\ implicit[i][1].autoprocessed) =>
            /\ inbox[i] = NoItem
            /\ TimesCalled(i, "StoreCalendarObjectResource") = 0
            /\ OneEntry(i, OK, Success)
            /\ returned[i] = <<TRUE>>
            /\ NoCandidate(i)
            /\ idx > i

\* C4's case: autoprocessed, not processed, auto-schedule enabled
C4_Witness ==
    \E i \in 1..NumRecipients :
        /\ implicit[i] = <<[processed |-> FALSE, autoprocessed |-> TRUE]>>
        /\ recipients[i].autoSchedule
        /\ pc = "done"

\* The recipient at i was reported neither processed nor autoprocessed and
\* its principal has auto-schedule enabled
Unprocessed(i) ==
    /\ implicit[i] = <<[processed |-> FALSE, autoprocessed |-> FALSE]>>
    /\ recipients[i].autoSchedule

\* Exactly one candidate (principal, inbox, stored item) was produced for the
\* recipient at i
OneCandidate(i) ==
    /\ TimesCalled(i, "autoresponses.append") = 1
    /\ pc # "done" =>
        /\ Cardinality(CandidatesOf(i)) = 1
        /\ \A k \in CandidatesOf(i) :
            autoresponses[k] = [principal |-> i, inbox |-> i, child |-> i]

C6_FireAndForget ==
    [][/\ (pc # "done" /\ pc' = "done") =>
            /\ handled' = {}
            /\ Cardinality(delayedCalls') = Len(autoresponses')
       /\ handled' # handled =>
            /\ pc \in Finished
            /\ responses' = responses
            /\ pc' = pc]_vars

\* C6's case: the call is over, a deferred call has failed and another is
\* still waiting
C6_Witness ==
    /\ pc = "done"
    /\ \E h \in handled : h.outcome = "failed"
    /\ delayedCalls # {}
    /\ Len(responses) = NumRecipients

\* C7: a deferred call is handed to the reactor, and so run, only once the
\* loop over the recipients is over: every recipient then has its entry.
C7_DeferredAfterLoop ==
    (delayedCalls # {} \/ handled # {}) =>
        /\ pc = "done"
        /\ idx = NumRecipients + 1
        /\ \A i \in 1..NumRecipients : Cardinality(EntriesFor(i)) = 1

\* C7's case: a deferred call has run
C7_Witness ==
    /\ handled # {}
    /\ NumRecipients > 1

(***************************************************************************)
(* Properties of the address classifier                                    *)
(***************************************************************************)
\* suffix is the end of s
IsSuffix(suffix, s) ==
    \E head \in {SubSeq(s, 1, k) : k \in 0..Len(s)} : s = head \o suffix

\* The text before the first "?" of s
BeforeQuery(s) ==
    LET marks == {k \in 1..Len(s) : s[k] = "?"}
    IN  IF marks = {} THEN s
        ELSE SubSeq(s, 1, (CHOOSE k \in marks : \A j \in marks : k <= j) - 1)

IsHttp(addr) == StartsWith(addr, Http) \/ StartsWith(addr, Https)

\* The host portion of an http or https address: after the scheme, before "?"
HostPortion(addr) ==
    BeforeQuery(From(addr, IF StartsWith(addr, Https) THEN Len(Https)
                           ELSE Len(Http)))

\* C8: for an http:// or https:// address, matchCalendarUserAddress returns
\* true when HTTPDomain is not empty and the host portion of the address
\* (after the scheme, before any "?") ends with it.
C8_HttpDomain ==
    (/\ match # <<>>
     /\ IsHttp(cuaddr)
     /\ config.HTTPDomain # <<>>
     /\ IsSuffix(config.HTTPDomain, HostPortion(cuaddr)))
        => match[1].result

\* C9: for a mailto: address and a non-empty EmailDomain, the result is true
\* when the text after "mailto:" and before the first "?" ends with
\* EmailDomain, and false when it does not and no address pattern matches;
\* with an empty EmailDomain the domain test is not applied (the fallback
\* decides).
C9_MailtoDomain ==
    (match # <<>> /\ StartsWith(cuaddr, Mailto)) =>
        LET local == BeforeQuery(From(cuaddr, Len(Mailto)))
            domain == config.EmailDomain
            fallback == DefaultMatch(cuaddr, config.AddressPatterns)
        IN  /\ (domain # <<>> /\ IsSuffix(domain, local)) =>
                    match[1] = [result |-> TRUE, super |-> FALSE]
            /\ (domain # <<>> /\ ~IsSuffix(domain, local) /\ ~fallback) =>
                    ~match[1].result
            /\ domain = <<>> =>
                    match[1] = [result |-> fallback, super |-> TRUE]

\* C9's case: a mailto: address with a query, whose text before the query
\* ends with the configured domain
C9_Witness ==
    /\ match # <<>>
    /\ StartsWith(cuaddr, Mailto)
    /\ \E k \in 1..Len(cuaddr) : cuaddr[k] = "?"
    /\ config.EmailDomain # <<>>
    /\ IsSuffix(config.EmailDomain, BeforeQuery(From(cuaddr, Len(Mailto))))
    /\ ~IsSuffix(config.EmailDomain, cuaddr)
    /\ match[1].result

\* C10: an address that begins with "/" matches under every configuration,
\* and the fallback matcher is not consulted for it.
C10_RelativeAddress ==
    (match # <<>> /\ cuaddr # <<>> /\ cuaddr[1] = "/") =>
        match[1] = [result |-> TRUE, super |-> FALSE]

\* C10's case: a "/" address that no configured pattern or domain matches
C10_Witness ==
    /\ match # <<>>
    /\ cuaddr # <<>>
    /\ cuaddr[1] = "/"
    /\ Len(cuaddr) > 1
    /\ ~DefaultMatch(cuaddr, config.AddressPatterns)
    /\ config.EmailDomain # <<>>
    /\ config.HTTPDomain # <<>>
    /\ match[1].result

\* The rules of the classifier as the specification words them: a mailto:
\* address whose text before "?" ends with a non-empty EmailDomain, an
\* http(s) address whose host portion ends with a non-empty HTTPDomain, an
\* address that begins with "/".
DecidedTrue(addr, cfg) ==
    \/ /\ StartsWith(addr, Mailto)
       /\ cfg.EmailDomain # <<>>
       /\ IsSuffix(cfg.EmailDomain, BeforeQuery(From(addr, Len(Mailto))))
    \/ /\ IsHttp(addr)
       /\ cfg.HTTPDomain # <<>>
       /\ IsSuffix(cfg.HTTPDomain, HostPortion(addr))
    \/ /\ addr # <<>>
       /\ addr[1] = "/"

\* C11: for every address that the mailto, http(s) and "/" rules do not
\* decide true, matchCalendarUserAddress returns exactly what the fallback
\* pattern matcher returns.
C11_FallbackDecides ==
    (match # <<>> /\ ~DecidedTrue(cuaddr, config)) =>
        match[1] = [result |-> DefaultMatch(cuaddr, config.AddressPatterns),
                    super |-> TRUE]

\* The exception of the given type caught for the recipient at i
CaughtFor(i, type) == caught[i] # <<>> /\ caught[i][1].type = type

\* C14: in the invite path, when doImplicitProcessing fails with the typed
\* ImplicitProcessorException, the recipient's one entry is FORBIDDEN with
\* the exception's own message as request-status, generateResponse returns
\* False, the store is never called, the inbox holds no item and no property,
\* and no candidate is produced for the recipient.
C14_TypedFailure ==
    \A i \in 1..NumRecipients :
        CaughtFor(i, "ImplicitProcessorException") =>
            /\ OneEntry(i, FORBIDDEN, caught[i][1].msg)
            /\ caught[i][1].msg \in ImplicitMessages
            /\ returned[i] = <<FALSE>>
            /\ TimesCalled(i, "StoreCalendarObjectResource") = 0
            /\ inbox[i] = NoItem
            /\ NoCandidate(i)

\* The typed failure has been answered for the first of two recipients and
\* the delivery is over.
C14_Witness ==
    /\ pc = "done"
    /\ NumRecipients = MaxRecipients
    /\ ~freebusy
    /\ CaughtFor(1, "ImplicitProcessorException")
    /\ recipients[1].autoSchedule

\* What holds of the recipient at i once the store has failed for it
StoreFailureAnswered(i) ==
    /\ OneEntry(i, FORBIDDEN, NoAuthority)
    /\ returned[i] = <<FALSE>>
    /\ inbox[i] = NoItem
    /\ TimesCalled(i, "writeOriginator") = 0
    /\ TimesCalled(i, "writeRecipient") = 0
    /\ TimesCalled(i, "writeScheduleState") = 0
    /\ NoCandidate(i)
    /\ idx > i

\* The call of StoreCalendarObjectResource made for the recipient at i ends
\* in this step.
StoreEnds(i) ==
    /\ pc = "StoreCalendarObjectResource"
    /\ idx = i
    /\ pc' # pc

\* C15: in the invite path, whatever error the store of the inbox item
\* raises, the recipient's one entry is FORBIDDEN with "3.8;No authority",
\* generateResponse returns False, none of the three properties is written,
\* no candidate is produced, and the loop goes on with the next recipient:
\* a store that ends either succeeded or leaves the loop at the first call
\* of the recipient that follows.
C15_StoreFailure ==
    /\ [](\A i \in 1..NumRecipients :
            (~freebusy /\ CaughtFor(i, "Exception")) =>
                StoreFailureAnswered(i))
    /\ [][\A i \in 1..NumRecipients :
            StoreEnds(i) =>
                \/ inbox'[i].stored
                \/ /\ CaughtFor(i, "Exception")'
                   /\ idx' = i + 1
                   /\ pc' = StartOf(i + 1)]_vars

\* The store failed for the first of two recipients, and the second, an
\* auto-scheduling one, got its item and its candidate.
C15_Witness ==
    /\ pc = "done"
    /\ NumRecipients = MaxRecipients
    /\ ~freebusy
    /\ CaughtFor(1, "Exception")
    /\ recipients[1].autoSchedule
    /\ inbox[NumRecipients].stored
    /\ TimesCalled(NumRecipients, "autoresponses.append") = 1

\* The marker the claim asks for, given the flag doImplicitProcessing returned
Marker(processed) ==
    IF processed THEN "schedule-processed" ELSE "schedule-unprocessed"

Collected ==
    {i \in 1..NumRecipients : TimesCalled(i, "autoresponses.append") > 0}

\* C17: after the loop, when iTipProcessor.canAutoRespond answers False for
\* the scheduling calendar, every collected candidate is discarded and no
\* deferred task is scheduled (no duplicate of the calendar is made either);
\* canAutoRespond is consulted only after the loop and only when at least
\* one candidate was collected, and then it always is.
C17_CannotAutoRespond ==
    /\ consulted = <<FALSE>> =>
            /\ autoresponses = <<>>
            /\ delayedCalls = {}
            /\ handled = {}
            /\ duplicates = 0
    /\ consulted # <<>> => (pc = "done" /\ Collected # {})
    /\ (pc = "done" /\ Collected # {}) => consulted # <<>>

\* Two candidates were collected and canAutoRespond answered False.
C17_Witness ==
    /\ pc = "done"
    /\ consulted = <<FALSE>>
    /\ Cardinality(Collected) = MaxRecipients

\* Every task given to the reactor, run or not yet
AllTasks == delayedCalls \cup {h.task : h \in handled}

\* The tasks scheduled for the candidate c
TasksFor(c) ==
    {t \in AllTasks : /\ t.principal = c.principal
                      /\ t.inbox = c.inbox
                      /\ t.child = c.child}

\* C18: every retained candidate is consumed exactly once.  Before the loop
\* is over no task exists; once the delivery is done there is exactly one
\* task per retained candidate and no other task, carrying the candidate's
\* principal, inbox and stored item; each task has a duplicate of the
\* calendar made for it alone, which is neither the scheduler's calendar
\* nor another task's; and the reactor runs a task at most once.
C18_ConsumedOnce ==
    /\ pc # "done" => AllTasks = {}
    /\ pc = "done" =>
        /\ Cardinality(AllTasks) = Len(autoresponses)
        /\ \A k \in 1..Len(autoresponses) :
                Cardinality(TasksFor(autoresponses[k])) = 1
        /\ duplicates = Len(autoresponses)
        /\ \A t \in AllTasks :
                /\ t.calendar \in 1..duplicates
                /\ \A u \in AllTasks : u.calendar = t.calendar => u = t
        /\ \A h \in handled :
                /\ h.task \notin delayedCalls
                /\ \A g \in handled : g.task = h.task => g = h

\* Two candidates were retained; the reactor has run the task of one and
\* still holds the task of the other.
C18_Witness ==
    /\ pc = "done"
    /\ Len(autoresponses) = MaxRecipients
    /\ Cardinality(delayedCalls) = 1
    /\ Cardinality(handled) = MaxRecipients - 1

\* C19: when the organizer is not a LocalCalendarUser, no access check is
\* made for any recipient: checkPrivileges is never called and no access
\* outcome is recorded, the first call made for a recipient is that of its
\* sub-path (invite delivery or free-busy aggregation), and no recipient
\* gets the NOT_FOUND "3.8;No authority" entry of the access denial.
C19_RemoteOrganizer ==
    organizer # LocalCalendarUser =>
        /\ pc # "checkPrivileges"
        /\ \A i \in 1..NumRecipients :
            /\ access[i] = "none"
            /\ TimesCalled(i, "checkPrivileges") = 0
            /\ ~CaughtFor(i, "AccessDeniedError")
            /\ calls[i] # <<>> => calls[i][1] = Dispatch
            /\ (idx = i /\ calls[i] = <<>>) => pc = Dispatch
            /\ \A k \in EntriesFor(i) : responses[k].code # NOT_FOUND

\* A remote organizer's delivery to two recipients is over, each with its
\* entry.
C19_Witness ==
    /\ organizer = RemoteCalendarUser
    /\ pc = "done"
    /\ NumRecipients = MaxRecipients
    /\ \A i \in 1..NumRecipients : Cardinality(EntriesFor(i)) = 1

\* The calls of generateResponse and of generateFreeBusyResponse
InviteCalls ==
    {"locateResource", "doImplicitProcessing", "StoreCalendarObjectResource",
     "writeOriginator", "writeRecipient", "writeScheduleState",
     "autoresponses.append"}

FreeBusyCalls == {"getAttendeeProperty", "generateAttendeeFreeBusyResponse"}

CallsOf(i) == {calls[i][k] : k \in 1..Len(calls[i])}

\* C20: a recipient that passes the access step is handled by exactly one
\* sub-path, chosen by self.freebusy.  In free-busy mode only the free-busy
\* calls are made for it: no implicit processing, no inbox item, no
\* property, no candidate and hence no task.  Otherwise only the calls of
\* the invite delivery are made: no free-busy call, no source read, no
\* entry carrying a free-busy reply.  A recipient for which a sub-path
\* returned entered that sub-path exactly once.
C20_OneSubPath ==
    \A i \in 1..NumRecipients :
        /\ freebusy =>
            /\ CallsOf(i) \subseteq {"checkPrivileges"} \cup FreeBusyCalls
            /\ implicit[i] = <<>>
            /\ inbox[i] = NoItem
            /\ NoCandidate(i)
            /\ autoresponses = <<>>
            /\ AllTasks = {}
            /\ returned[i] # <<>> => TimesCalled(i, "getAttendeeProperty") = 1
        /\ ~freebusy =>
            /\ CallsOf(i) \subseteq {"checkPrivileges"} \cup InviteCalls
            /\ collected = <<>>
            /\ \A k \in EntriesFor(i) : responses[k].calendar = <<>>
            /\ returned[i] # <<>> => TimesCalled(i, "locateResource") = 1

\* A local organizer's free-busy request to two recipients that both passed
\* the access check is over, each answered by the free-busy sub-path.
C20_Witness ==
    /\ freebusy
    /\ pc = "done"
    /\ NumRecipients = MaxRecipients
    /\ \A i \in 1..NumRecipients :
        /\ TimesCalled(i, "checkPrivileges") = 1
        /\ recipients[i].autoSchedule
        /\ returned[i] = <<TRUE>>

(***************************************************************************)
(* Properties of the free-busy aggregation                                 *)
(***************************************************************************)
\* The elements of a list
Range(s) == {s[k] : k \in 1..Len(s)}

\* A source the claims call valid: it resolves to an existing calendar
\* collection.
ValidSource(r) == r.located /\ r.exists /\ r.isCalendarCollection

\* An event's period lies fully inside the query range.
Inside(period, range) ==
    period.start >= range.start /\ period.end <= range.end

\* The busy periods a reply must hold for the free-busy set: those of the
\* busy events of its valid sources that lie inside the query range and are
\* not the event being scheduled.
BusyInside ==
    {e.period : e \in
        {e \in UNION {Range(fbset[s].events) :
                        s \in {s \in 1..Len(fbset) : ValidSource(fbset[s])}} :
            /\ e.fbtype = "BUSY"
            /\ e.uid # ExcludeUID
            /\ Inside(e.period, TimeRange)}}

\* The error outcomes of the collaborators of the aggregation
AggregationErrors ==
    {"calendarFreeBusyURIs:error", "hasProperty:error", "readProperty:error",
     "locateCalendarResource:error", "generateFreeBusyInfo:error",
     "buildFreeBusyResult:error"}

\* C12: the aggregation skips every source that resolves to None, to a
\* resource that does not exist or to one that is no calendar collection,
\* without failing: the collector is called for valid sources only; the
\* request fails only when a collaborator raised, never for a skipped
\* source; and when the aggregation returns, every valid source of the set
\* was collected and the recipient's entry is OK with "2.0;Success" and a
\* REPLY whose busy list holds every busy interval of a valid source that
\* lies inside the query range.
C12_SkipsInvalidSources ==
    /\ \A k \in 1..Len(collected) : ValidSource(collected[k].calendarResource)
    /\ \A i \in 1..NumRecipients :
        /\ CaughtFor(i, "Exception") =>
                CallsOf(i) \cap AggregationErrors # {}
        /\ returned[i] = <<TRUE>> =>
            /\ CallsOf(i) \cap AggregationErrors = {}
            /\ Len(collected) =
                   Cardinality({s \in 1..Len(fbset) : ValidSource(fbset[s])})
            /\ Cardinality(EntriesFor(i)) = 1
            /\ \A k \in EntriesFor(i) :
                /\ responses[k].code = OK
                /\ responses[k].reqstatus = "2.0;Success"
                /\ Len(responses[k].calendar) = 1
                /\ responses[k].calendar[1].method = "REPLY"
                /\ BusyInside \subseteq Range(responses[k].calendar[1].busy)

\* The set has a missing collection, then a valid one with a busy interval
\* inside the range; the reply holds the interval.
C12_Witness ==
    /\ pc = "done"
    /\ fbset = <<MissingCollection, CalendarCollection(<<BusyEvent>>)>>
    /\ Len(responses) = 1
    /\ responses[1].reqstatus = "2.0;Success"
    /\ responses[1].calendar[1].busy = <<BusyEvent.period>>
    /\ Len(collected) = 1

\* The periods of the events of the free-busy set that have the excluded UID
ExcludedPeriods ==
    {e.period : e \in
        {e \in UNION {Range(fbset[s].events) : s \in 1..Len(fbset)} :
            e.uid = ExcludeUID}}

\* C13: every call of the interval collector, whatever the source, is made
\* with the scheduler's excludeUID, and no interval of an event with that UID
\* is in the busy (or tentative) list of fbinfo or of a reply, although the
\* event overlaps the query range.
C13_ExcludedUID ==
    /\ \A k \in 1..Len(collected) : collected[k].excludeuid = ExcludeUID
    /\ ExcludedPeriods \cap (Range(fbinfo.busy) \cup Range(fbinfo.tentative))
            = {}
    /\ \A k \in 1..Len(responses) :
            responses[k].calendar # <<>> =>
                ExcludedPeriods \cap
                    (Range(responses[k].calendar[1].busy) \cup
                     Range(responses[k].calendar[1].tentative)) = {}

\* Both sources are collected, one of them holding the event being
\* scheduled, which overlaps the range; the reply holds the other events'
\* intervals only.
C13_Witness ==
    /\ pc = "done"
    /\ fbset = <<CalendarCollection(<<ExcludedEvent, TentativeEvent>>),
                 CalendarCollection(<<BusyEvent>>)>>
    /\ Overlaps(ExcludedEvent.period, TimeRange)
    /\ Len(collected) = Len(fbset)
    /\ Len(responses) = 1
    /\ responses[1].calendar # <<>>
    /\ responses[1].calendar[1].busy = <<BusyEvent.period>>
    /\ responses[1].calendar[1].tentative = <<TentativeEvent.period>>

\* C21: in the free-busy path, when any step of the aggregation fails
\* (fetching the free-busy set, testing or reading the availability
\* property, locating a source, collecting intervals, building the reply)
\* the recipient's one entry is FORBIDDEN with "3.8;No authority" and no
\* calendar, and generateFreeBusyResponse returns False; when the reply is
\* built, the one entry is OK with "2.0;Success" and carries the reply built
\* from fbinfo, and True is returned.  The aggregation ends in one of the
\* two ways.
C21_FreeBusyOutcome ==
    \A i \in 1..NumRecipients :
        /\ CallsOf(i) \cap AggregationErrors # {} =>
            /\ OneEntry(i, FORBIDDEN, "3.8;No authority")
            /\ returned[i] = <<FALSE>>
            /\ CaughtFor(i, "Exception")
        /\ TimesCalled(i, "buildFreeBusyResult") = 1 =>
            /\ Cardinality(EntriesFor(i)) = 1
            /\ \A k \in EntriesFor(i) :
                   responses[k] =
                       [recipient |-> recipients[i].cuaddr, code |-> OK,
                        reqstatus |-> "2.0;Success",
                        calendar |-> <<[method |-> "REPLY",
                                        attendee |-> recipients[i].cuaddr,
                                        busy |-> fbinfo.busy,
                                        tentative |-> fbinfo.tentative,
                                        unavailable |-> fbinfo.unavailable]>>]
            /\ returned[i] = <<TRUE>>
        /\ (TimesCalled(i, "calendarFreeBusyURIs") = 1 /\ idx > i) =>
            \/ CallsOf(i) \cap AggregationErrors # {}
            \/ TimesCalled(i, "buildFreeBusyResult") = 1

\* The collector failed on the second source, after the first was
\* collected; the request is over with the failure entry.
C21_Witness ==
    /\ pc = "done"
    /\ Len(collected) = MaxSources
    /\ "generateFreeBusyInfo:error" \in CallsOf(1)
    /\ TimesCalled(1, "generateFreeBusyInfo") = MaxSources - 1
    /\ Len(responses) = 1
    /\ responses[1].code = FORBIDDEN

\* The call made last for the recipient at i
LastCall(i) == calls[i][Len(calls[i])]

\* C22: in the free-busy path, when the extraction of the attendee property
\* (calendarUserAddresses or getAttendeeProperty) raises for a recipient,
\* that recipient gets the FORBIDDEN "3.8;No authority" entry, as for an
\* aggregation error.
C22_AttendeePropertyError ==
    \A i \in 1..NumRecipients :
        (/\ freebusy
         /\ pc = "raised"
         /\ idx = i
         /\ calls[i] # <<>>
         /\ LastCall(i) = "getAttendeeProperty") =>
            OneEntry(i, FORBIDDEN, "3.8;No authority")

\* C23: the response set only grows.  Every step of the delivery, of the
\* auto-respond phase and of the reactor either leaves self.responses as it
\* is or appends one entry at its end: the entries already there keep their
\* content and their position.
C23_ResponsesOnlyGrow ==
    [][\/ responses' = responses
       \/ /\ Len(responses') = Len(responses) + 1
          /\ SubSeq(responses', 1, Len(responses)) = responses]_vars

\* The first recipient's success entry is still first after the second
\* recipient's failure, the auto-respond phase and the run of the task.
C23_Witness ==
    /\ pc = "done"
    /\ Len(responses) = MaxRecipients
    /\ responses[1].code = OK
    /\ responses[Len(responses)].code = FORBIDDEN
    /\ handled # {}

\* C24: the same_calendar_user flag passed to the interval collector is true
\* if and only if the organizer is a LocalCalendarUser and its principal URL
\* equals the recipient's; it is false for every remote organizer; and the
\* servertoserver flag passed is true exactly when the organizer is a
\* RemoteCalendarUser.
C24_CollectorFlags ==
    \A k \in 1..Len(collected) :
        /\ collected[k].same_calendar_user =
               (organizer = LocalCalendarUser /\ samePrincipal)
        /\ organizer = RemoteCalendarUser => ~collected[k].same_calendar_user
        /\ collected[k].servertoserver = (organizer = RemoteCalendarUser)

\* A local organizer asks for its own free-busy: both sources are collected
\* with same_calendar_user true and servertoserver false.
C24_Witness ==
    /\ pc = "done"
    /\ organizer = LocalCalendarUser
    /\ samePrincipal
    /\ Len(collected) = MaxSources
    /\ \A k \in 1..Len(collected) :
        /\ collected[k].same_calendar_user
        /\ ~collected[k].servertoserver

\* The valid sources of the free-busy set, in its order
ValidSources == SelectSeq(fbset, ValidSource)

\* The value the last collector call returned, 0 before the first call
Threaded ==
    IF collected = <<>> THEN 0
    ELSE Collect(collected[Len(collected)]).matchtotal

\* C25: the sources are visited in the order of the free-busy set and the
\* match counter is threaded through them.  The k-th collector call is for
\* the k-th valid source of the set; the first call receives 0 and each
\* later call the value the call before it returned; a skipped source
\* leaves the counter as it is, so between two sources the counter is the
\* value the last call returned; and the source located next is the one at
\* the loop's position, positions being taken one after the other.
C25_CounterThreaded ==
    /\ Len(collected) <= Len(ValidSources)
    /\ \A k \in 1..Len(collected) :
        /\ collected[k].calendarResource = ValidSources[k]
        /\ k = 1 => collected[k].matchtotal = 0
        /\ k > 1 => collected[k].matchtotal =
                        Collect(collected[k - 1]).matchtotal
    /\ pc \in {"locateCalendarResource", "buildFreeBusyResult"} =>
        /\ matchtotal = Threaded
        /\ Len(collected) =
               Len(SelectSeq(SubSeq(fbset, 1, source - 1), ValidSource))
        /\ \A i \in 1..NumRecipients :
               idx = i => TimesCalled(i, "locateCalendarResource") = source - 1
    /\ pc = "generateFreeBusyInfo" =>
        /\ matchtotal = Threaded
        /\ fbset[source] = ValidSources[Len(collected) + 1]
    /\ pc = "buildFreeBusyResult" => source = Len(fbset) + 1

\* Two valid sources with one matching event each were collected, the
\* second call having received what the first returned.
C25_Witness ==
    /\ pc = "done"
    /\ Len(collected) = MaxSources
    /\ collected[MaxSources].matchtotal > 0
    /\ matchtotal = Len(collected)
    /\ Len(responses) = 1
    /\ responses[1].code = OK

\* The positions, in the calls made for the recipient at i, of the calls
\* with one of the names
PositionsOf(i, names) == {k \in 1..Len(calls[i]) : calls[i][k] \in names}

\* C26: the availability property of the inbox is merged into the initially
\* empty fbinfo before any source is located or collected, and only when
\* the inbox has the property.  With the property, it is read once and the
\* first collector call receives the empty fbinfo with the availability
\* merged; without it, the property is never read, nothing is ever in the
\* unavailable list, and the first collector call receives three empty
\* lists.
C26_AvailabilityFirst ==
    \A i \in 1..NumRecipients :
        /\ PositionsOf(i, {"readProperty", "readProperty:error"}) # {} =>
               hasAvailability
        /\ \A a \in PositionsOf(i, {"readProperty", "readProperty:error"}),
              b \in PositionsOf(i, {"locateCalendarResource",
                                    "locateCalendarResource:error",
                                    "generateFreeBusyInfo",
                                    "generateFreeBusyInfo:error"}) : a < b
        /\ ~hasAvailability =>
            /\ fbinfo.unavailable = <<>>
            /\ collected # <<>> => collected[1].fbinfo = EmptyFbinfo
        /\ (hasAvailability /\ collected # <<>>) =>
            /\ TimesCalled(i, "readProperty") = 1
            /\ collected[1].fbinfo.busy = <<>>
            /\ collected[1].fbinfo.tentative = <<>>
            /\ collected[1].fbinfo.unavailable # <<>>
            /\ collected[1].fbinfo =
                   ProcessAvailabilityFreeBusy(EmptyFbinfo, TimeRange)

\* The inbox has the property: it was read and merged, then two sources
\* were collected and the reply carries the unavailable period.
C26_Witness ==
    /\ pc = "done"
    /\ hasAvailability
    /\ Len(collected) = MaxSources
    /\ collected[1].fbinfo.unavailable # <<>>
    /\ Len(responses) = 1
    /\ responses[1].calendar # <<>>
    /\ responses[1].calendar[1].unavailable = collected[1].fbinfo.unavailable

\* C27: at every point of every execution, those cut short by an escaping
\* exception included, the response set holds at most one entry for each
\* position of the recipient list, holds entries only for recipients the
\* loop has reached, and holds nothing else: never two entries come from
\* the processing of one recipient.
C27_AtMostOneEntry ==
    /\ Len(responses) <= NumRecipients
    /\ \A k \in 1..Len(responses) :
           \E i \in 1..NumRecipients : k \in EntriesFor(i)
    /\ \A i \in 1..NumRecipients :
        /\ Cardinality(EntriesFor(i)) <= 1
        /\ EntriesFor(i) # {} => i <= idx
        /\ i < idx => Cardinality(EntriesFor(i)) = 1

\* An exception escaped while the second recipient was processed, after its
\* success entry was added: the set holds one entry for each of the two.
C27_Witness ==
    /\ pc = "raised"
    /\ idx = MaxRecipients
    /\ Len(responses) = MaxRecipients
    /\ inbox[idx].stored
    /\ inbox[idx].state = <<>>

\* The position in the list of the recipient an entry is for
PositionOf(entry) ==
    CHOOSE i \in 1..NumRecipients : recipients[i].cuaddr = entry.recipient

\* C28: the recipients are processed one after the other in list order.
\* Calls are made only for the recipient the loop is at, never again for a
\* recipient it has left and not yet for one it has not reached, and the
\* loop moves by one position at a time; so the entries of the response set
\* are in the order of their recipients in the list, the candidates are in
\* that order too, and the deferred tasks are scheduled (each with the
\* duplicate made at that moment) in that same order.
C28_ListOrder ==
    /\ [](/\ \A i \in 1..NumRecipients : calls[i] # <<>> => i <= idx
          /\ \A k \in 1..Len(responses), l \in 1..Len(responses) :
                 k < l => PositionOf(responses[k]) < PositionOf(responses[l])
          /\ \A k \in 1..Len(autoresponses), l \in 1..Len(autoresponses) :
                 k < l =>
                     autoresponses[k].principal < autoresponses[l].principal
          /\ \A t \in AllTasks, u \in AllTasks :
                 t.principal < u.principal => t.calendar < u.calendar)
    /\ [][/\ idx' \in {idx, idx + 1}
          /\ \A i \in 1..NumRecipients :
                 calls'[i] # calls[i] => i = idx]_vars

\* Two recipients got their entries and their tasks, in list order.
C28_Witness ==
    /\ pc = "done"
    /\ Len(responses) = MaxRecipients
    /\ Cardinality(AllTasks) = MaxRecipients
    /\ \A i \in 1..NumRecipients : calls[i] # <<>>

\* A candidate was appended for the recipient at i, or is in the list, or a
\* task was scheduled for it.
HasCandidate(i) ==
    \/ TimesCalled(i, "autoresponses.append") > 0
    \/ CandidatesOf(i) # {}
    \/ TasksOf(i) # {}

\* C29: every auto-response candidate, and so every deferred task, belongs
\* to a recipient whose one entry is OK "2.0;Success", whose inbox item was
\* stored, whose schedule-state is the unprocessed marker, for which
\* doImplicitProcessing returned processed = False and autoprocessed =
\* False, and whose principal has auto-schedule on; a recipient with a
\* failure entry has neither candidate nor task.
C29_CandidatesAreDelivered ==
    \A i \in 1..NumRecipients :
        /\ HasCandidate(i) =>
            /\ OneEntry(i, OK, "2.0;Success")
            /\ inbox[i].stored
            /\ inbox[i].state = <<"schedule-unprocessed">>
            /\ implicit[i] = <<[processed |-> FALSE, autoprocessed |-> FALSE]>>
            /\ recipients[i].autoSchedule
        /\ (\E k \in EntriesFor(i) : responses[k].code # OK) =>
               ~HasCandidate(i)

\* The first recipient's task was scheduled; the second, an auto-scheduling
\* principal too, got a failure entry and no task.
C29_Witness ==
    /\ pc = "done"
    /\ NumRecipients = MaxRecipients
    /\ TasksOf(1) # {}
    /\ recipients[NumRecipients].autoSchedule
    /\ \E k \in EntriesFor(NumRecipients) : responses[k].code = FORBIDDEN
    /\ TasksOf(NumRecipients) = {}

\* The calls of generateResponse, in the order of its text
InviteOrder ==
    <<"locateResource", "doImplicitProcessing", "StoreCalendarObjectResource",
      "writeOriginator", "writeRecipient", "writeScheduleState",
      "autoresponses.append">>

\* The calls made for the recipient at i after the access check
AfterAccess(i) ==
    LET sub(name) == name # "checkPrivileges" IN SelectSeq(calls[i], sub)

IsPrefix(s, t) == Len(s) <= Len(t) /\ s = SubSeq(t, 1, Len(s))

PropertyWrites == {"writeOriginator", "writeRecipient", "writeScheduleState"}

\* C30: in the invite path the effects for a recipient come in a fixed
\* order: the lookup of the child, the implicit processing, the store, the
\* success entry, the writes of the originator, recipient and schedule-state
\* properties, the candidate decision.  So the calls made are a prefix of
\* that order; a property write is attempted, and an item carries an
\* annotation, only when the recipient's OK "2.0;Success" entry is already
\* there; and when a property write raises, that entry stays in place.
C30_OrderOfEffects ==
    ~freebusy =>
        \A i \in 1..NumRecipients :
            /\ IsPrefix(AfterAccess(i), InviteOrder)
            /\ CallsOf(i) \cap PropertyWrites # {} =>
                /\ OneEntry(i, OK, "2.0;Success")
                /\ inbox[i].stored
            /\ (\/ inbox[i].originator # <<>>
                \/ inbox[i].recipient # <<>>
                \/ inbox[i].state # <<>>) => OneEntry(i, OK, "2.0;Success")
            /\ inbox[i].stored => OneEntry(i, OK, "2.0;Success")
            /\ (/\ pc = "raised"
                /\ idx = i
                /\ calls[i] # <<>>
                /\ LastCall(i) \in PropertyWrites) =>
                   OneEntry(i, OK, "2.0;Success")

\* The write of the recipient property raised for the second recipient:
\* its item has the originator property only, and its success entry is in
\* the response set.
C30_Witness ==
    /\ pc = "raised"
    /\ idx = MaxRecipients
    /\ LastCall(idx) = "writeRecipient"
    /\ inbox[idx].originator # <<>>
    /\ inbox[idx].recipient = <<>>
    /\ responses[Len(responses)].recipient = recipients[idx].cuaddr
    /\ responses[Len(responses)].code = OK

(***************************************************************************)
(* Properties of the configuration                                         *)
(***************************************************************************)
\* C31: _cleanup returns a copy of the loaded dictionary in which every key
\* that exists in the defaults keeps its value and every key the defaults
\* do not have is removed, unless ICAL_SERVER_CONFIG_VALIDATION is set to
\* "loose" in the environment, in which case the unknown keys are kept with
\* their values; no key is added, no error is raised, and the dictionary
\* passed in is not modified.
C31_Cleanup ==
    /\ [](\A k \in 1..Len(loaded) :
            loaded[k].outcome = "read" =>
                /\ loaded[k].error = <<>>
                /\ DOMAIN loaded[k].configDict \subseteq DOMAIN configDict
                /\ \A key \in DOMAIN loaded[k].configDict :
                       loaded[k].configDict[key] = configDict[key]
                /\ \A key \in DOMAIN configDict :
                       key \in DOMAIN DefaultDict =>
                           key \in DOMAIN loaded[k].configDict
                /\ \A key \in DOMAIN configDict \ DOMAIN DefaultDict :
                       key \in DOMAIN loaded[k].configDict <=>
                           /\ ConfigKey \in DOMAIN environ
                           /\ environ[ConfigKey] = "loose")
    /\ [][configDict' = configDict]_vars

\* A file with a known and an unknown key, each with a site value, was
\* cleaned with the variable set to something other than "loose": the known
\* key is all that is left.
C31_Witness ==
    /\ loaded # <<>>
    /\ loaded[1].outcome = "read"
    /\ ConfigKey \in DOMAIN environ
    /\ environ[ConfigKey] = "strict"
    /\ DOMAIN configDict = {"BindAddresses", "BindAddress"}
    /\ configDict["BindAddresses"] = "site"
    /\ DOMAIN loaded[1].configDict = {"BindAddresses"}
    /\ loaded[1].configDict["BindAddresses"] = "site"

\* An enabled XMPP notifier of the section has an empty required field.
EmptyRequiredField ==
    \E name \in DOMAIN notifications.Services :
        LET service == notifications.Services[name]
        IN  /\ service.Service = "twistedcaldav.notify.XMPPNotifierService"
            /\ service.Enabled
            /\ \/ service.Host = ""
               \/ service.Port = 0
               \/ service.JID = ""
               \/ service.ServiceAddress = ""

\* C32: after _updateNotifications has run on a configuration that is not
\* reloading, Notifications.Enabled is true if and only if at least one
\* service is enabled, whether the hook returned or raised; the hook raises
\* ConfigurationError when an enabled XMPP notifier has an empty field
\* other than AllowedJIDs, HeartbeatMinutes and Password, and only then;
\* and on a reloading configuration the hook returns without changing
\* anything.
C32_NotificationsHook ==
    /\ []((hook # <<>> /\ ~reloading) =>
            /\ notifications.Enabled <=>
                   \E name \in DOMAIN notifications.Services :
                       notifications.Services[name].Enabled
            /\ EmptyRequiredField => hook = <<"ConfigurationError">>
            /\ ~EmptyRequiredField => hook = <<"returned">>)
    /\ []((hook # <<>> /\ reloading) => hook = <<"returned">>)
    /\ [][/\ reloading => notifications' = notifications
          /\ \A name \in DOMAIN notifications.Services :
                 /\ name \in DOMAIN notifications'.Services
                 /\ notifications'.Services[name].Enabled =
                        notifications.Services[name].Enabled]_vars

\* The section said Enabled = False; the simple notifier is off, the XMPP
\* notifier is on without a host.  The hook set Enabled and raised.
C32_Witness ==
    /\ hook = <<"ConfigurationError">>
    /\ ~reloading
    /\ notifications.Enabled
    /\ DOMAIN notifications.Services = {"SimpleLineNotifier", "XMPPNotifier"}
    /\ ~notifications.Services["SimpleLineNotifier"].Enabled
    /\ notifications.Services["XMPPNotifier"].Enabled
    /\ notifications.Services["XMPPNotifier"].Host = ""
    /\ notifications.Services["XMPPNotifier"].JID # ""
    /\ notifications.Services["XMPPNotifier"].ServiceAddress # ""
    /\ notifications.Services["XMPPNotifier"].Password = "keychain-secret"

============================================================================
